---- MODULE Spec2Model ----
(***************************************************************************)
(* Model of ccrec/models/bert_mt.py: the joint model's blended loss        *)
(* (_BertMT), the cycle constants and the combined loader of the data      *)
(* module (_DataMT), the fit lifecycle of the orchestrator (BertMT) and    *)
(* the bmt_main pipeline around it.                                        *)
(*                                                                         *)
(* Python's float quotients are modelled as exact rationals <<num, den>>   *)
(* in lowest terms (den > 0).                                              *)
(***************************************************************************)
EXTENDS Integers, Sequences, FiniteSets

\* ---------------------------------------------------------------- bounds
\* fit / bmt_main invocations followed in one behaviour
MaxFits == 2
\* batch counts of the two sources range over 1..MaxBatches
MaxBatches == 3
\* epochs of one trainer.fit followed step by step
MaxEpochsRun == 2
\* distinct checkpoint directory paths
MaxPaths == 2

\* ------------------------------------------------------------- rationals
RECURSIVE GCD(_, _)
GCD(a, b) == IF b = 0 THEN a ELSE GCD(b, a % b)

Rat(n, d) == LET g == GCD(n, d) IN <<n \div g, d \div g>>
Zero == Rat(0, 1)
One == Rat(1, 1)
RAdd(a, b) == Rat(a[1] * b[2] + b[1] * a[2], a[2] * b[2])
RSub(a, b) == Rat(a[1] * b[2] - b[1] * a[2], a[2] * b[2])
RMul(a, b) == Rat(a[1] * b[1], a[2] * b[2])
RDiv(a, b) == Rat(a[1] * b[2], a[2] * b[1])
RLeq(a, b) == a[1] * b[2] <= b[1] * a[2]
\* Python's max(a, b): the first argument unless the second is greater
RMax(a, b) == IF RLeq(b, a) THEN a ELSE b
\* Python's int() of a non-negative float: truncation
RInt(a) == a[1] \div a[2]

\* ------------------------------------------------------- inputs followed
\* alpha as configured (0.05 is the default of _BertMT and bmt_main)
DefaultAlpha == Rat(1, 20)
Alphas == {Zero, DefaultAlpha, One}
\* max_epochs as configured (10: BertMT's default)
EpochChoices == {1, 10}
\* max_steps as configured (-1: BertMT's default, no cap)
StepChoices == {-1, 2}
\* per-batch means of the content and of the ranking loss
Losses == {0, 1, 2}
\* V: absent (fit's default V=None), or a dataset given by its target_csr.nnz
None == -1
Datasets == {None, 0, 1}
Paths == 1..MaxPaths
Batches == 1..MaxBatches

\* ---------------------------------------------------------------- _DataMT
\* ct_cycles of _DataMT.__init__ from the batch counts (ft, ct)
CtCyclesNoMax(ft_batches, ct_batches) == Rat(ft_batches, ct_batches)
CtCycles(ft_batches, ct_batches) == RMax(One, Rat(ft_batches, ct_batches))
\* ft_cycles of _DataMT.__init__
FtCyclesNoMax(ft_batches, ct_batches) == Rat(ct_batches, ft_batches)
FtCycles(ft_batches, ct_batches) == RMax(One, Rat(ct_batches, ft_batches))

\* the data module built by _get_data_module(V)
DataMT(ft_batches, ct_batches) ==
    [ft_batches |-> ft_batches, ct_batches |-> ct_batches,
     ct_cycles |-> CtCycles(ft_batches, ct_batches),
     ft_cycles |-> FtCycles(ft_batches, ct_batches)]

\* CombinedLoader(mode='max_size_cycle'): length of one epoch
LoaderLenMin(m, n) == IF m <= n THEN m ELSE n
LoaderLen(m, n) == IF m >= n THEN m ELSE n
\* one source's iterator: restarted from its first batch when it runs out
CycleNext(pos, len) == IF pos = len THEN 0 ELSE pos
FreshLoader == [k |-> 0, ft_pos |-> 0, ct_pos |-> 0]

\* ---------------------------------------------------------------- _BertMT
\* the two coefficients of training_and_validation_step
ContentCoef(a, ct_cycles) == RDiv(RSub(One, a), ct_cycles)
RankingCoef(a, ft_cycles) == RDiv(a, ft_cycles)
training_and_validation_step_unnormalized(a, ct_cycles, ft_cycles, ct_loss, ft_loss) ==
    RAdd(RMul(RSub(One, a), Rat(ct_loss, 1)), RMul(a, Rat(ft_loss, 1)))
training_and_validation_step_swapped(a, ct_cycles, ft_cycles, ct_loss, ft_loss) ==
    RAdd(RMul(RDiv(a, ct_cycles), Rat(ct_loss, 1)),
         RMul(RDiv(RSub(One, a), ft_cycles), Rat(ft_loss, 1)))
training_and_validation_step(a, ct_cycles, ft_cycles, ct_loss, ft_loss) ==
    RAdd(RMul(ContentCoef(a, ct_cycles), Rat(ct_loss, 1)),
         RMul(RankingCoef(a, ft_cycles), Rat(ft_loss, 1)))

\* ----------------------------------------------------------------- BertMT
\* the floor of the epoch count in fit
MinEpochs == 5
\* the epoch count fit hands to the Trainer
TrainerEpochsNoFloor(epochs, ct_cycles) == RInt(RDiv(Rat(epochs, 1), ct_cycles))
TrainerEpochs(epochs, ct_cycles) ==
    RInt(RMax(Rat(MinEpochs, 1), RDiv(Rat(epochs, 1), ct_cycles)))
\* the guard of fit's early return
IsNoopNoFrozenCheck(v, trainable) == v = None
IsNoop(v, trainable) == v = None \/ ~trainable
\* bmt_main's assertion on V.target_csr.nnz
TargetAssertionOff(nnz) == TRUE
TargetAssertion(nnz) == nnz > 0
\* the fallback file of fit
StateDict == "state-dict.pth"

\* native checkpoint artifacts written by the Trainer's checkpoint callback
Native == "native"

NoModel == [id |-> 0]
NoDm == [ft_batches |-> 0]
NoTrainer == [max_epochs |-> 0]
NoStep == [k |-> -1]

VARIABLES
    alpha, max_epochs, max_steps,      \* the orchestrator's hyperparameters
    model,                             \* self.model: the id of the live _BertMT
    requires_grad,                     \* whether any parameter of self.model is trainable
    _ckpt_dirpath,                     \* the checkpoint history
    _logger,                           \* add_text entries: <<path, step>>
    built,                             \* _BertMT instances constructed so far
    dirs, files,                       \* the file system: directories, <<dir, name>> files
    pc, caller, V,                     \* the call in flight
    new_model,                         \* fit's local `model`
    dm,                                \* fit's local `dm`
    trainer,                           \* fit's local `trainer`
    epoch, global_step, loader,        \* the Trainer's loop and the CombinedLoader
    yielded,                           \* the pairs yielded in the current epoch
    step,                              \* the last training step
    ct_weight, ft_weight,              \* coefficients summed over the current epoch
    calls, trained, completed, ret     \* the calls made, and how they ended

orch == <<alpha, max_epochs, max_steps, model, requires_grad, _ckpt_dirpath, _logger, built>>
fs == <<dirs, files>>
frame == <<caller, V, new_model, dm, trainer>>
loop == <<epoch, global_step, loader, yielded, step, ct_weight, ft_weight>>
vars == <<orch, fs, pc, frame, loop, calls, trained, completed, ret>>

\* BertMT.__init__: a fresh orchestrator with a freshly built, trainable model
Construct(a, e, s) ==
    /\ alpha' = a
    /\ max_epochs' = e
    /\ max_steps' = s
    /\ built' = built + 1
    /\ model' = built + 1
    /\ requires_grad' = TRUE
    /\ _ckpt_dirpath' = <<>>
    /\ _logger' = <<>>
    /\ trained' = 0
    /\ completed' = 0

Init ==
    /\ alpha = DefaultAlpha
    /\ max_epochs \in EpochChoices
    /\ max_steps \in StepChoices
    /\ built = 1
    /\ model = 1
    /\ requires_grad = TRUE
    /\ _ckpt_dirpath = <<>>
    /\ _logger = <<>>
    /\ dirs = {}
    /\ files = {}
    /\ pc = "idle"
    /\ caller = "none"
    /\ V = None
    /\ new_model = NoModel
    /\ dm = NoDm
    /\ trainer = NoTrainer
    /\ epoch = 0
    /\ global_step = 0
    /\ loader = FreshLoader
    /\ yielded = <<>>
    /\ step = NoStep
    /\ ct_weight = Zero
    /\ ft_weight = Zero
    /\ calls = 0
    /\ trained = 0
    /\ completed = 0
    /\ ret = "none"

Locals == <<new_model, dm, trainer>>
DropLocals ==
    /\ new_model' = NoModel
    /\ dm' = NoDm
    /\ trainer' = NoTrainer
ResetLoop ==
    /\ epoch' = 0
    /\ global_step' = 0
    /\ loader' = FreshLoader
    /\ yielded' = <<>>
    /\ step' = NoStep
    /\ ct_weight' = Zero
    /\ ft_weight' = Zero
\* fit returns to its caller: bmt_main goes on to its evaluation
Return(c) == IF c = "bmt_main" THEN "bmt_eval" ELSE "idle"
\* the call's arguments are dropped when control is back at top level
EndCall(c) ==
    IF c = "bmt_main"
    THEN UNCHANGED <<caller, V>>
    ELSE caller' = "none" /\ V' = None

\* a caller freezes every parameter of the live model
Freeze ==
    /\ pc = "idle"
    /\ requires_grad
    /\ requires_grad' = FALSE
    /\ UNCHANGED <<alpha, max_epochs, max_steps, model, _ckpt_dirpath, _logger, built,
                   fs, pc, frame, loop, calls, trained, completed, ret>>

\* bmt.fit(V) called on the orchestrator directly
DirectFit ==
    \E v \in Datasets :
        /\ pc = "idle"
        /\ calls < MaxFits
        /\ calls' = calls + 1
        /\ caller' = "direct"
        /\ V' = v
        /\ pc' = "fit"
        /\ ret' = "running"
        /\ UNCHANGED <<orch, fs, Locals, loop, trained, completed>>

\* bmt_main, lines 176-182: the assertion on V.target_csr.nnz fails
BmtMainAssertionError ==
    \E nnz \in Datasets \ {None} :
        /\ pc = "idle"
        /\ calls < MaxFits
        /\ ~TargetAssertion(nnz)
        /\ calls' = calls + 1
        /\ ret' = "AssertionError"
        /\ UNCHANGED <<orch, fs, pc, frame, loop, trained, completed>>

\* bmt_main, lines 176-191: the assertion passes, the orchestrator is built and
\* bmt.fit(V) is called
BmtMain ==
    \E nnz \in Datasets \ {None}, e \in EpochChoices :
        /\ pc = "idle"
        /\ calls < MaxFits
        /\ TargetAssertion(nnz)
        /\ calls' = calls + 1
        /\ caller' = "bmt_main"
        /\ V' = nnz
        /\ Construct(DefaultAlpha, e, -1)
        /\ pc' = "fit"
        /\ ret' = "running"
        /\ UNCHANGED <<fs, Locals, loop>>

\* fit, lines 138-139: no dataset, or nothing trainable: return self
FitNoop ==
    /\ pc = "fit"
    /\ IsNoop(V, requires_grad)
    /\ ret' = "noop"
    /\ pc' = Return(caller)
    /\ UNCHANGED <<orch, fs, frame, loop, calls, trained, completed>>

\* fit, line 140: a fresh _BertMT
FitBegin ==
    /\ pc = "fit"
    /\ ~IsNoop(V, requires_grad)
    /\ built' = built + 1
    /\ new_model' = [id |-> built + 1, ct_cycles |-> Zero, ft_cycles |-> Zero, dirpath |-> 0]
    /\ pc' = "model_built"
    /\ UNCHANGED <<alpha, max_epochs, max_steps, model, requires_grad, _ckpt_dirpath,
                   _logger, fs, caller, V, dm, trainer, loop, calls, trained, completed, ret>>

\* bmt_main, lines 193-201: the evaluation after fit
BmtEval ==
    /\ pc = "bmt_eval"
    /\ pc' = "idle"
    /\ ret' = "metrics"
    /\ EndCall("returned")
    /\ UNCHANGED <<orch, fs, Locals, loop, calls, trained, completed>>

\* fit, lines 142-143: the data module and set_training_data
FitDataModule ==
    \E m \in Batches, n \in Batches :
        /\ pc = "model_built"
        /\ dm' = DataMT(m, n)
        /\ new_model' = [new_model EXCEPT !.ct_cycles = dm'.ct_cycles,
                                          !.ft_cycles = dm'.ft_cycles]
        /\ pc' = "dm_built"
        /\ UNCHANGED <<orch, fs, caller, V, trainer, loop, calls, trained, completed, ret>>

\* fit, lines 144-150: the Trainer is built and its fit entered
FitTrainer ==
    /\ pc = "dm_built"
    /\ trainer' = [max_epochs |-> TrainerEpochs(max_epochs, dm.ct_cycles),
                   max_steps |-> max_steps]
    /\ pc' = "training"
    /\ ResetLoop
    /\ UNCHANGED <<orch, fs, caller, V, new_model, dm, calls, trained, completed, ret>>

StepCapReached == trainer.max_steps # -1 /\ global_step >= trainer.max_steps
EpochLen == LoaderLen(dm.ft_batches, dm.ct_batches)
\* the combined loader has no next pair in this epoch
Exhausted == loader.k >= EpochLen

\* one step of the Trainer's loop: the combined loader's next pair and the loss on it
TrainStep ==
    \E ct_loss \in Losses, ft_loss \in Losses :
        LET i == CycleNext(loader.ft_pos, dm.ft_batches)
            j == CycleNext(loader.ct_pos, dm.ct_batches)
        IN  /\ pc = "training"
            /\ ~Exhausted
            /\ ~StepCapReached
            /\ loader' = [k |-> loader.k + 1, ft_pos |-> i + 1, ct_pos |-> j + 1]
            /\ yielded' = Append(yielded, <<i, j>>)
            /\ step' = [k |-> loader.k, ct_loss |-> ct_loss, ft_loss |-> ft_loss,
                        loss |-> training_and_validation_step(
                                     alpha, new_model.ct_cycles, new_model.ft_cycles,
                                     ct_loss, ft_loss)]
            /\ ct_weight' = RAdd(ct_weight, ContentCoef(alpha, new_model.ct_cycles))
            /\ ft_weight' = RAdd(ft_weight, RankingCoef(alpha, new_model.ft_cycles))
            /\ global_step' = global_step + 1
            /\ UNCHANGED <<orch, fs, pc, frame, epoch, calls, trained, completed, ret>>

\* the loader is exhausted and the Trainer starts another epoch
NextEpoch ==
    /\ pc = "training"
    /\ Exhausted
    /\ ~StepCapReached
    /\ epoch + 1 < trainer.max_epochs
    /\ epoch + 1 < MaxEpochsRun
    /\ epoch' = epoch + 1
    /\ loader' = FreshLoader
    /\ yielded' = <<>>
    /\ step' = NoStep
    /\ ct_weight' = Zero
    /\ ft_weight' = Zero
    /\ UNCHANGED <<orch, fs, pc, frame, global_step, calls, trained, completed, ret>>

\* fit, line 150: trainer.fit returns (after its last epoch, at the step cap, or
\* stopped early). The Trainer has resolved model._checkpoint.dirpath, and its
\* checkpoint callback may have written the directory.
TrainerFitReturn ==
    \E p \in Paths, saved \in BOOLEAN :
        /\ pc = "training"
        /\ new_model' = [new_model EXCEPT !.dirpath = p]
        /\ dirs' = IF saved THEN dirs \cup {p} ELSE dirs
        /\ files' = IF saved THEN files \cup {<<p, Native>>} ELSE files
        /\ trained' = trained + 1
        /\ pc' = "trained"
        /\ ResetLoop
        /\ UNCHANGED <<orch, caller, V, dm, trainer, calls, completed, ret>>

FitLoadBestSwapsEarly ==
    /\ pc = "trained"
    /\ pc' = "loaded"
    /\ model' = new_model.id
    /\ UNCHANGED <<alpha, max_epochs, max_steps, requires_grad, _ckpt_dirpath, _logger, built,
                   fs, frame, loop, calls, trained, completed, ret>>
\* fit, line 151: model._load_best_checkpoint("best")
FitLoadBest ==
    /\ pc = "trained"
    /\ pc' = "loaded"
    /\ UNCHANGED <<orch, fs, frame, loop, calls, trained, completed, ret>>

\* fit, line 153: the checkpoint directory exists
FitSkipFallback ==
    /\ pc = "loaded"
    /\ new_model.dirpath \in dirs
    /\ pc' = "ckpt_ready"
    /\ UNCHANGED <<orch, fs, frame, loop, calls, trained, completed, ret>>

FitNoFallback ==
    /\ pc = "loaded"
    /\ new_model.dirpath \notin dirs
    /\ pc' = "ckpt_ready"
    /\ UNCHANGED <<orch, fs, frame, loop, calls, trained, completed, ret>>
\* fit, lines 153-156: the directory is missing and is created
FitMakedirs ==
    /\ pc = "loaded"
    /\ new_model.dirpath \notin dirs
    /\ dirs' = dirs \cup {new_model.dirpath}
    /\ pc' = "made"
    /\ UNCHANGED <<orch, files, frame, loop, calls, trained, completed, ret>>

\* fit, line 157: torch.save of the state dict
FitSave ==
    /\ pc = "made"
    /\ files' = files \cup {<<new_model.dirpath, StateDict>>}
    /\ pc' = "ckpt_ready"
    /\ UNCHANGED <<orch, dirs, frame, loop, calls, trained, completed, ret>>

\* fit, line 159: add_text("ckpt", dirpath, len(self._ckpt_dirpath))
FitLog ==
    /\ pc = "ckpt_ready"
    /\ _logger' = Append(_logger, <<new_model.dirpath, Len(_ckpt_dirpath)>>)
    /\ pc' = "logged"
    /\ UNCHANGED <<alpha, max_epochs, max_steps, model, requires_grad, _ckpt_dirpath, built,
                   fs, frame, loop, calls, trained, completed, ret>>

\* fit, line 160: self._ckpt_dirpath.append(dirpath)
FitAppend ==
    /\ pc = "logged"
    /\ _ckpt_dirpath' = Append(_ckpt_dirpath, new_model.dirpath)
    /\ pc' = "appended"
    /\ UNCHANGED <<alpha, max_epochs, max_steps, model, requires_grad, _logger, built,
                   fs, frame, loop, calls, trained, completed, ret>>

\* fit, lines 161-162: self.model = model; return self
FitSwap ==
    /\ pc = "appended"
    /\ model' = new_model.id
    /\ requires_grad' = TRUE
    /\ completed' = completed + 1
    /\ ret' = "self"
    /\ pc' = Return(caller)
    /\ EndCall(caller)
    /\ DropLocals
    /\ UNCHANGED <<alpha, max_epochs, max_steps, _ckpt_dirpath, _logger, built,
                   fs, loop, calls, trained>>

\* the statements of fit that call a collaborator, each of which may raise
RaisingPoints == {"model_built", "dm_built", "training", "trained", "loaded", "made",
                  "ckpt_ready"}

\* an exception leaves fit (and bmt_main) through the caller
Raise ==
    /\ pc \in RaisingPoints
    /\ pc' = "idle"
    /\ ret' = "raised"
    /\ EndCall("raised")
    /\ DropLocals
    /\ ResetLoop
    /\ UNCHANGED <<orch, fs, calls, trained, completed>>

Next ==
    \/ Freeze
    \/ DirectFit
    \/ BmtMainAssertionError
    \/ BmtMain
    \/ FitNoop
    \/ FitBegin
    \/ BmtEval
    \/ FitDataModule
    \/ FitTrainer
    \/ TrainerFitReturn
    \/ FitLoadBest
    \/ FitSkipFallback
    \/ FitMakedirs
    \/ FitSave
    \/ FitLog
    \/ FitAppend
    \/ FitSwap
    \/ Raise

\* The fit lifecycle of the orchestrator. trainer.fit is an opaque synchronous
\* call here; its loop is followed step by step under SpecTrain.
Spec == Init /\ [][Next]_vars

\* The state at line 150 of the first fit of a fresh orchestrator: the data module
\* is built, the cycle constants are in the model, trainer.fit is entered.
InitTrain ==
    \E m \in Batches, n \in Batches :
        /\ alpha \in Alphas
        /\ max_epochs \in EpochChoices
        /\ max_steps \in StepChoices
        /\ built = 2
        /\ model = 1
        /\ requires_grad = TRUE
        /\ _ckpt_dirpath = <<>>
        /\ _logger = <<>>
        /\ dirs = {}
        /\ files = {}
        /\ pc = "training"
        /\ caller = "direct"
        /\ V = 1
        /\ dm = DataMT(m, n)
        /\ new_model = [id |-> 2, ct_cycles |-> dm.ct_cycles, ft_cycles |-> dm.ft_cycles,
                        dirpath |-> 0]
        /\ trainer = [max_epochs |-> TrainerEpochs(max_epochs, dm.ct_cycles),
                      max_steps |-> max_steps]
        /\ epoch = 0
        /\ global_step = 0
        /\ loader = FreshLoader
        /\ yielded = <<>>
        /\ step = NoStep
        /\ ct_weight = Zero
        /\ ft_weight = Zero
        /\ calls = 1
        /\ trained = 0
        /\ completed = 0
        /\ ret = "running"

NextTrain ==
    \/ TrainStep
    \/ NextEpoch
    \/ TrainerFitReturn
    \/ Raise

\* One trainer.fit followed step by step: the combined loader and the loss.
SpecTrain == InitTrain /\ [][NextTrain]_vars

\* ------------------------------------------------------------------ claims
Max2(m, n) == IF m > n THEN m ELSE n
Last(q) == q[Len(q)]
Five == Rat(MinEpochs, 1)

\* C1: fit(None), and fit(V) on a model none of whose parameters requires grad,
\* return the orchestrator unchanged: self.model is the same reference, no model,
\* data module or trainer is built, nothing is trained, the checkpoint history and
\* the log are not extended, and the file system is untouched.
C1_NoopFit ==
    [][(pc = "fit" /\ (V = None \/ ~requires_grad)) =>
          /\ ret' = "noop"
          /\ pc' = Return(caller)
          /\ model' = model
          /\ requires_grad' = requires_grad
          /\ built' = built
          /\ new_model' = NoModel
          /\ dm' = NoDm
          /\ trainer' = NoTrainer
          /\ trained' = trained
          /\ _ckpt_dirpath' = _ckpt_dirpath
          /\ _logger' = _logger
          /\ dirs' = dirs
          /\ files' = files]_vars
\* a fit(V) with a dataset on a frozen model has returned as a no-op
C1_Witness == pc = "idle" /\ ret = "noop" /\ V # None /\ ~requires_grad

\* C2 (as amended): a training fit logs the checkpoint path, appends it to the
\* history and only then replaces self.model; self.model is replaced only by the
\* model of a fit whose training, checkpoint loading, fallback and logging all
\* succeeded; a fit that raises leaves self.model and the history as they were; and
\* between calls the history length equals the number of fits that ran to
\* completion.
C2_SwapLast ==
    /\ [](Len(_ckpt_dirpath) = completed + (IF pc = "appended" THEN 1 ELSE 0))
    /\ [](Len(_logger) = completed + (IF pc \in {"logged", "appended"} THEN 1 ELSE 0))
    /\ [][/\ (model' # model /\ pc # "idle") =>
               /\ pc = "appended"
               /\ model' = new_model.id
               /\ Last(_ckpt_dirpath) = new_model.dirpath
               /\ Last(_logger) = <<new_model.dirpath, Len(_ckpt_dirpath) - 1>>
               /\ completed' = completed + 1
          /\ (_ckpt_dirpath' # _ckpt_dirpath /\ pc # "idle") =>
               /\ pc = "logged"
               /\ _ckpt_dirpath' = Append(_ckpt_dirpath, new_model.dirpath)
               /\ model' = model
          /\ ret' = "raised" =>
               /\ model' = model
               /\ _ckpt_dirpath' = _ckpt_dirpath
               /\ completed' = completed]_vars
\* a second fit has raised after a first one completed: the first fit's model is live
C2_Witness ==
    /\ pc = "idle"
    /\ ret = "raised"
    /\ completed = 1
    /\ trained = 2
    /\ model # 1
    /\ model # built
\* C2 as stated: between calls the history length equals the number of fits that
\* completed training.
C2_Original == pc = "idle" => Len(_ckpt_dirpath) = trained

C4_CycleConstants ==
    /\ [](dm # NoDm =>
            /\ RLeq(One, dm.ct_cycles)
            /\ RLeq(One, dm.ft_cycles)
            /\ dm.ct_cycles = One \/ dm.ft_cycles = One
            /\ (dm.ct_cycles = One /\ dm.ft_cycles = One) <=> (dm.ft_batches = dm.ct_batches)
            /\ new_model.ct_cycles = dm.ct_cycles
            /\ new_model.ft_cycles = dm.ft_cycles)
    /\ [][(dm # NoDm /\ dm' # NoDm) => dm' = dm]_vars
\* a data module with unequal batch counts, still in use after training
C4_Witness ==
    /\ pc = "ckpt_ready"
    /\ dm.ft_batches = 2
    /\ dm.ct_batches = 3
    /\ dm.ft_cycles = Rat(3, 2)
    /\ dm.ct_cycles = One

\* C5: one epoch of the combined loader yields exactly max(m, n) pairs: pair k
\* (from 0) carries batch k mod m of the ranking source and batch k mod n of the
\* content source, so the larger source is seen once, in order, and the smaller
\* one restarts from its first batch whenever it runs out.
C5_MaxSizeCycle ==
    pc = "training" =>
        LET m == dm.ft_batches
            n == dm.ct_batches
        IN  /\ Len(yielded) <= Max2(m, n)
            /\ \A k \in 1..Len(yielded) : yielded[k] = <<(k - 1) % m, (k - 1) % n>>
            /\ Exhausted => Len(yielded) = Max2(m, n)
\* a whole epoch over 3 ranking batches and 2 content batches
C5_Witness ==
    /\ pc = "training"
    /\ dm.ft_batches = 3
    /\ dm.ct_batches = 2
    /\ Exhausted
    /\ yielded = <<(<<0, 0>>), (<<1, 1>>), (<<2, 0>>)>>

\* C6: the blended loss is (1-alpha)/ct_cycles * ct_loss + alpha/ft_cycles * ft_loss
\* (stated after clearing the denominators); at alpha = 0 it is the content loss
\* over ct_cycles, at alpha = 1 the ranking loss over ft_cycles.
C6_BlendedLoss ==
    step # NoStep =>
        LET a == alpha
            c == new_model.ct_cycles
            f == new_model.ft_cycles
            l == step.loss
        IN  /\ l[1] * a[2] * c[1] * f[1] =
                 l[2] * ((a[2] - a[1]) * c[2] * step.ct_loss * f[1]
                         + a[1] * f[2] * step.ft_loss * c[1])
            /\ a = Zero => RMul(l, c) = Rat(step.ct_loss, 1)
            /\ a = One => RMul(l, f) = Rat(step.ft_loss, 1)
\* a step at alpha = 0 with both losses non-zero and ct_cycles = 3/2
C6_Witness ==
    /\ step # NoStep
    /\ alpha = Zero
    /\ step.ct_loss = 1
    /\ step.ft_loss = 2
    /\ new_model.ct_cycles = Rat(3, 2)
    /\ step.loss = Rat(2, 3)

\* C7 (as amended): alpha weights the ranking loss and 1-alpha the content loss: a
\* step whose ranking loss is 0 returns (1-alpha)/ct_cycles * ct_loss, and a step
\* whose content loss is 0 returns alpha/ft_cycles * ft_loss.
C7_Weights ==
    step # NoStep =>
        /\ step.ft_loss = 0 =>
             RMul(step.loss, new_model.ct_cycles) = RMul(RSub(One, alpha), Rat(step.ct_loss, 1))
        /\ step.ct_loss = 0 =>
             RMul(step.loss, new_model.ft_cycles) = RMul(alpha, Rat(step.ft_loss, 1))
\* at alpha = 1 a step with only a ranking loss returns that loss
C7_Witness ==
    /\ step # NoStep
    /\ alpha = One
    /\ step.ct_loss = 0
    /\ step.ft_loss = 2
    /\ new_model.ft_cycles = One
    /\ step.loss = Rat(2, 1)
\* C7 as stated: the ranking loss is weighted by 1-alpha and the content loss by alpha.
C7_Original ==
    step # NoStep =>
        /\ step.ft_loss = 0 =>
             RMul(step.loss, new_model.ct_cycles) = RMul(alpha, Rat(step.ct_loss, 1))
        /\ step.ct_loss = 0 =>
             RMul(step.loss, new_model.ft_cycles) = RMul(RSub(One, alpha), Rat(step.ft_loss, 1))

\* C8 (as amended): the epoch count handed to the Trainer is max(5, max_epochs /
\* ct_cycles) truncated to an integer, so it is never below 5; the step cap handed
\* over is the configured max_steps.
C8_EpochBudget ==
    trainer # NoTrainer =>
        LET x == RMax(Five, RDiv(Rat(max_epochs, 1), dm.ct_cycles))
            t == trainer.max_epochs
        IN  /\ RLeq(Rat(t, 1), x)
            /\ ~RLeq(Rat(t + 1, 1), x)
            /\ t >= MinEpochs
            /\ trainer.max_steps = max_steps
\* max_epochs = 10 over ct_cycles = 3/2: 6 epochs, not 20/3
C8_Witness ==
    /\ pc = "training"
    /\ max_epochs = 10
    /\ dm.ct_cycles = Rat(3, 2)
    /\ trainer.max_epochs = 6
    /\ trainer.max_steps = 2
\* C8 as stated: the epoch count handed over is max(5, max_epochs / ct_cycles).
C8_Original ==
    trainer # NoTrainer =>
        /\ Rat(trainer.max_epochs, 1) = RMax(Five, RDiv(Rat(max_epochs, 1), dm.ct_cycles))
        /\ trainer.max_steps = max_steps

\* C9: every path in the checkpoint history is a directory that exists; a fit
\* that finds the directory missing after training and loading creates it and
\* saves state-dict.pth in it before it logs and appends the path; a fit that
\* finds the directory writes nothing.
C9_CheckpointDir ==
    /\ [](\A i \in 1..Len(_ckpt_dirpath) : _ckpt_dirpath[i] \in dirs)
    /\ [](pc \in {"ckpt_ready", "logged", "appended"} => new_model.dirpath \in dirs)
    /\ [][/\ (pc = "loaded" /\ new_model.dirpath \in dirs /\ ret' # "raised") =>
               (pc' = "ckpt_ready" /\ dirs' = dirs /\ files' = files)
          /\ (pc = "loaded" /\ new_model.dirpath \notin dirs /\ ret' # "raised") =>
               (pc' = "made" /\ dirs' = dirs \cup {new_model.dirpath} /\ files' = files)
          /\ (pc = "made" /\ ret' # "raised") =>
               /\ pc' = "ckpt_ready"
               /\ dirs' = dirs
               /\ files' = files \cup {<<new_model.dirpath, StateDict>>}
          /\ files' # files => pc \in {"training", "made"}
          /\ _logger' # _logger /\ pc # "idle" => pc = "ckpt_ready"]_vars
\* a completed fit whose checkpoint directory holds only the fallback file
C9_Witness ==
    /\ pc = "idle"
    /\ completed = 1
    /\ Len(_ckpt_dirpath) = 1
    /\ <<_ckpt_dirpath[1], StateDict>> \in files
    /\ <<_ckpt_dirpath[1], Native>> \notin files

\* C10: over the max(m, n) steps of one epoch the coefficients of the content loss
\* sum to (1-alpha) * n and those of the ranking loss to alpha * m.
C10_EpochWeights ==
    (pc = "training" /\ Len(yielded) = Max2(dm.ft_batches, dm.ct_batches)) =>
        /\ ct_weight = RMul(RSub(One, alpha), Rat(dm.ct_batches, 1))
        /\ ft_weight = RMul(alpha, Rat(dm.ft_batches, 1))
\* a whole epoch over 3 ranking and 2 content batches at alpha = 1/20
C10_Witness ==
    /\ pc = "training"
    /\ dm.ft_batches = 3
    /\ dm.ct_batches = 2
    /\ alpha = DefaultAlpha
    /\ Len(yielded) = 3
    /\ ct_weight = Rat(19, 10)
    /\ ft_weight = Rat(3, 20)
====
